---- MODULE Spec2Model ----
(***************************************************************************)
(* Model of the solana-mpl-core gateway program: process_entrypoint        *)
(* decodes the borsh instruction payload, binds the positional account     *)
(* list to the roles of the decoded operation (arity, then capability      *)
(* checks in declaration order) and issues one CPI into mpl_core.          *)
(*                                                                         *)
(* Option<T> is modelled as a sequence: <<>> is None, <<x>> is Some(x).    *)
(* Bytes are naturals 0..255, strings are sequences of bytes.              *)
(***************************************************************************)
EXTENDS Integers, Sequences, FiniteSets, TLC

VARIABLES
    accounts,          \* &[AccountInfo] handed to the entrypoint
    instruction_data,  \* &[u8] handed to the entrypoint
    pc,                \* position inside process_entrypoint
    instruction,       \* Option<Instructions>: the decoded instruction
    ctx,               \* Option<bound accounts struct> after try_from
    checks,            \* capability checks evaluated so far, in evaluation order
    cpi,               \* outbound calls into mpl_core issued so far
    reported,          \* what mpl_core reported for each of those calls
    result             \* ProgramResult of process_entrypoint ("Pending" while running)

vars == <<accounts, instruction_data, pc, instruction, ctx, checks, cpi, reported, result>>

----------------------------------------------------------------------------
(* Bounds of the model *)

\* extra trailing accounts supplied beyond the largest arity
MaxExtra == 1

\* longest name / uri string of the sample payloads
MaxStrLen == 1

----------------------------------------------------------------------------
(* Accounts *)

\* well-known identities: the absent marker of optional roles, the runtime
\* (system) program, the asset protocol (mpl_core) program, anything else
AbsentKey == "AbsentKey"
SystemId == "SystemId"
MplCoreId == "MplCoreId"
OtherKey == "OtherKey"

Keys == {AbsentKey, SystemId, MplCoreId, OtherKey}
Owners == {SystemId, MplCoreId}

AccountInfo == [key : Keys, owner : Owners, is_signer : BOOLEAN, is_writable : BOOLEAN]

new_test_account(key, is_signer, is_writable, owner) ==
    [key |-> key, owner |-> owner, is_signer |-> is_signer, is_writable |-> is_writable]

----------------------------------------------------------------------------
(* utils: capability checks and the optional lift *)

None == <<>>
Some(x) == <<x>>

\* ToOptionalAccount::to_optional: the absent marker becomes None
ToOptional(account) ==
    IF account.key = AbsentKey THEN None ELSE Some(account)

WritableAccountCheck(account) ==
    IF account.is_writable THEN "Ok" ELSE "NotWritable"

SignerAccountCheck(account) ==
    IF account.is_signer THEN "Ok" ELSE "NotSigner"

SystemAccountCheck(account) ==
    IF account.owner = SystemId THEN "Ok" ELSE "InvalidProgramOwner"

MplCoreAccountCheck(account) ==
    IF account.key = MplCoreId THEN "Ok" ELSE "InvalidAssetProtocol"

AccountCheck(kind, account) ==
    CASE kind = "Writable" -> WritableAccountCheck(account)
      [] kind = "Signer"   -> SignerAccountCheck(account)
      [] kind = "System"   -> SystemAccountCheck(account)
      [] kind = "MplCore"  -> MplCoreAccountCheck(account)

\* OptionalAccountCheck::check_optional: skip when absent, else the same check
OptionalAccountCheck(kind, optional) ==
    IF optional = None THEN "Ok" ELSE AccountCheck(kind, optional[1])

----------------------------------------------------------------------------
(* Instruction payload codec: borsh, as derived for Instructions *)

\* mpl_core::types::DataState, in declaration order (borsh discriminants 0, 1)
DataStates == <<"AccountState", "LedgerState">>

\* mpl_core::types::PluginAuthorityPair, abstracted to a plugin discriminant
\* and an optional authority discriminant, each one byte on the wire
PluginKinds == 0..1
AuthorityKinds == 0..1
PluginAuthorityPair == [plugin : PluginKinds, authority : {None} \cup {Some(a) : a \in AuthorityKinds}]

\* enum Instructions, in declaration order (borsh discriminants 0, 1, 2)
InstructionTags == <<"CreateNftV1", "UpdateNftV1", "TransferNftV1">>

IndexOf(seq, x) == CHOOSE i \in 1..Len(seq) : seq[i] = x

Fail == [ok |-> FALSE, val |-> None, rest |-> <<>>]
Done(v, rest) == [ok |-> TRUE, val |-> Some(v), rest |-> rest]

Drop(b, n) == SubSeq(b, n + 1, Len(b))
Take(b, n) == SubSeq(b, 1, IF n <= Len(b) THEN n ELSE Len(b))

ReadU8(b) ==
    IF Len(b) >= 1 THEN Done(b[1], Drop(b, 1)) ELSE Fail

\* ReadU32 taking the bytes in big endian order
ReadU32BigEndian(b) ==
    IF Len(b) >= 4
    THEN Done(IF b[1] >= 128 THEN 2147483647
              ELSE b[4] + 256 * b[3] + 65536 * b[2] + 16777216 * b[1], Drop(b, 4))
    ELSE Fail

\* u32, little endian.  Values of 2^31 and more are read as 2^31 - 1: they
\* are only ever lengths, and no buffer is that long
ReadU32(b) ==
    IF Len(b) >= 4
    THEN Done(IF b[4] >= 128 THEN 2147483647
              ELSE b[1] + 256 * b[2] + 65536 * b[3] + 16777216 * b[4], Drop(b, 4))
    ELSE Fail

WriteU32(n) ==
    <<n % 256, (n \div 256) % 256, (n \div 65536) % 256, (n \div 16777216) % 256>>

\* String::from_utf8 on the bytes read: lead byte classes and continuation bytes
RECURSIVE IsUtf8(_)
IsContinuation(c) == c >= 128 /\ c <= 191
IsUtf8(b) ==
    IF b = <<>> THEN TRUE
    ELSE LET c == b[1] IN
         IF c < 128 THEN IsUtf8(Drop(b, 1))
         ELSE IF c >= 194 /\ c <= 223
              THEN Len(b) >= 2 /\ IsContinuation(b[2]) /\ IsUtf8(Drop(b, 2))
         ELSE IF c >= 224 /\ c <= 239
              THEN /\ Len(b) >= 3 /\ IsContinuation(b[2]) /\ IsContinuation(b[3])
                   /\ (c = 224 => b[2] >= 160)
                   /\ (c = 237 => b[2] <= 159)
                   /\ IsUtf8(Drop(b, 3))
         ELSE IF c >= 240 /\ c <= 244
              THEN /\ Len(b) >= 4 /\ IsContinuation(b[2]) /\ IsContinuation(b[3])
                   /\ IsContinuation(b[4])
                   /\ (c = 240 => b[2] >= 144)
                   /\ (c = 244 => b[2] <= 143)
                   /\ IsUtf8(Drop(b, 4))
         ELSE FALSE

ReadString(b) ==
    LET n == ReadU32(b) IN
    IF ~n.ok THEN Fail
    ELSE IF n.val[1] > Len(n.rest) THEN Fail
    ELSE IF ~IsUtf8(Take(n.rest, n.val[1])) THEN Fail
    ELSE Done(Take(n.rest, n.val[1]), Drop(n.rest, n.val[1]))

WriteString(s) == WriteU32(Len(s)) \o s

ReadDataState(b) ==
    LET t == ReadU8(b) IN
    IF ~t.ok THEN Fail
    ELSE IF t.val[1] >= Len(DataStates) THEN Fail
    ELSE Done(DataStates[t.val[1] + 1], t.rest)

WriteDataState(d) == <<IndexOf(DataStates, d) - 1>>

\* Option<T>: flag byte 0 is None, 1 is Some followed by T, anything else fails
ReadOption(Read(_), b) ==
    LET f == ReadU8(b) IN
    IF ~f.ok THEN Fail
    ELSE IF f.val[1] = 0 THEN Done(None, f.rest)
    ELSE IF f.val[1] = 1
         THEN LET v == Read(f.rest) IN
              IF v.ok THEN Done(Some(v.val[1]), v.rest) ELSE Fail
    ELSE Fail

WriteOption(Write(_), o) ==
    IF o = None THEN <<0>> ELSE <<1>> \o Write(o[1])

ReadAuthority(b) ==
    LET t == ReadU8(b) IN
    IF ~t.ok THEN Fail
    ELSE IF t.val[1] \notin AuthorityKinds THEN Fail
    ELSE Done(t.val[1], t.rest)

WriteAuthority(a) == <<a>>

ReadPluginAuthorityPair(b) ==
    LET t == ReadU8(b) IN
    IF ~t.ok THEN Fail
    ELSE IF t.val[1] \notin PluginKinds THEN Fail
    ELSE LET a == ReadOption(ReadAuthority, t.rest) IN
         IF ~a.ok THEN Fail
         ELSE Done([plugin |-> t.val[1], authority |-> a.val[1]], a.rest)

WritePluginAuthorityPair(p) == <<p.plugin>> \o WriteOption(WriteAuthority, p.authority)

\* Vec<PluginAuthorityPair>: u32 element count, then the elements
RECURSIVE ReadPlugins(_, _, _)
ReadPlugins(n, acc, b) ==
    IF n = 0 THEN Done(acc, b)
    ELSE LET p == ReadPluginAuthorityPair(b) IN
         IF ~p.ok THEN Fail ELSE ReadPlugins(n - 1, Append(acc, p.val[1]), p.rest)

ReadPluginVec(b) ==
    LET n == ReadU32(b) IN
    IF ~n.ok THEN Fail
    ELSE ReadPlugins(n.val[1], <<>>, n.rest)

RECURSIVE WritePlugins(_)
WritePlugins(v) ==
    IF v = <<>> THEN <<>> ELSE WritePluginAuthorityPair(v[1]) \o WritePlugins(Tail(v))

WritePluginVec(v) == WriteU32(Len(v)) \o WritePlugins(v)

\* struct CreateNftV1InstructionData, fields in declaration order
ReadCreateNftV1InstructionData(b) ==
    LET d == ReadOption(ReadDataState, b) IN
    IF ~d.ok THEN Fail ELSE
    LET n == ReadString(d.rest) IN
    IF ~n.ok THEN Fail ELSE
    LET u == ReadString(n.rest) IN
    IF ~u.ok THEN Fail ELSE
    LET p == ReadOption(ReadPluginVec, u.rest) IN
    IF ~p.ok THEN Fail ELSE
    Done([data_state |-> d.val[1], name |-> n.val[1], uri |-> u.val[1],
          plugins |-> p.val[1]], p.rest)

WriteCreateNftV1InstructionData(d) ==
    WriteOption(WriteDataState, d.data_state) \o WriteString(d.name)
        \o WriteString(d.uri) \o WriteOption(WritePluginVec, d.plugins)

\* struct UpdateNftV1InstructionData, fields in declaration order
ReadUpdateNftV1InstructionData(b) ==
    LET n == ReadOption(ReadString, b) IN
    IF ~n.ok THEN Fail ELSE
    LET u == ReadOption(ReadString, n.rest) IN
    IF ~u.ok THEN Fail ELSE
    Done([new_name |-> n.val[1], new_uri |-> u.val[1]], u.rest)

WriteUpdateNftV1InstructionData(d) ==
    WriteOption(WriteString, d.new_name) \o WriteOption(WriteString, d.new_uri)

\* Instructions::deserialize: discriminant byte, then the variant's payload
ReadInstructions(b) ==
    LET t == ReadU8(b) IN
    IF ~t.ok THEN Fail
    ELSE IF t.val[1] >= Len(InstructionTags) THEN Fail
    ELSE LET tag == InstructionTags[t.val[1] + 1] IN
         CASE tag = "CreateNftV1" ->
                LET d == ReadCreateNftV1InstructionData(t.rest) IN
                IF d.ok THEN Done([tag |-> tag, data |-> d.val[1]], d.rest) ELSE Fail
           [] tag = "UpdateNftV1" ->
                LET d == ReadUpdateNftV1InstructionData(t.rest) IN
                IF d.ok THEN Done([tag |-> tag, data |-> d.val[1]], d.rest) ELSE Fail
           [] tag = "TransferNftV1" ->
                Done([tag |-> tag, data |-> None], t.rest)

\* Instructions::try_from_slice: deserialize, and fail when bytes are left over
TryFromSlice(b) ==
    LET r == ReadInstructions(b) IN
    IF r.ok /\ r.rest = <<>> THEN Some(r.val[1]) ELSE None

\* Instructions::serialize
WriteInstructions(i) ==
    <<IndexOf(InstructionTags, i.tag) - 1>> \o
    (CASE i.tag = "CreateNftV1" -> WriteCreateNftV1InstructionData(i.data)
       [] i.tag = "UpdateNftV1" -> WriteUpdateNftV1InstructionData(i.data)
       [] i.tag = "TransferNftV1" -> <<>>)

----------------------------------------------------------------------------
(* Account binding: TryFrom<&[AccountInfo]> of each operation *)

CreateArity == 9
UpdateArity == 7
TransferArity == 8

\* one capability check of a binding: the role it guards, the slot of the
\* account list the role is destructured from, the check and its optional form
Check(role, slot, kind, optional) ==
    [role |-> role, slot |-> slot, kind |-> kind, optional |-> optional]

\* CreateNftV1Checks with the two payer checks in the other order
CreateNftV1ChecksPayerSwapped ==
    << Check("asset", 1, "Writable", FALSE),
       Check("collection", 2, "Writable", FALSE),
       Check("authority", 3, "Signer", TRUE),
       Check("payer", 4, "Signer", FALSE),
       Check("payer", 4, "Writable", FALSE),
       Check("owner", 5, "Signer", TRUE),
       Check("update_authority", 6, "Signer", TRUE),
       Check("system_program", 7, "System", FALSE),
       Check("mpl_core", 9, "MplCore", FALSE) >>

\* create_nft_v1.rs, the checks of CreateNftV1Accounts::try_from in source order
CreateNftV1Checks ==
    << Check("asset", 1, "Writable", FALSE),
       Check("collection", 2, "Writable", FALSE),
       Check("authority", 3, "Signer", TRUE),
       Check("payer", 4, "Writable", FALSE),
       Check("payer", 4, "Signer", FALSE),
       Check("owner", 5, "Signer", TRUE),
       Check("update_authority", 6, "Signer", TRUE),
       Check("system_program", 7, "System", FALSE),
       Check("mpl_core", 9, "MplCore", FALSE) >>

\* update_nft_v1.rs, the checks of UpdateNftV1Accounts::try_from in source order
UpdateNftV1Checks ==
    << Check("asset", 1, "Writable", FALSE),
       Check("collection", 2, "Writable", FALSE),
       Check("authority", 3, "Signer", TRUE),
       Check("payer", 4, "Writable", FALSE),
       Check("payer", 4, "Signer", FALSE),
       Check("system_program", 5, "System", FALSE),
       Check("mpl_core", 7, "MplCore", FALSE) >>

\* TransferNftV1Checks without the asset protocol identity check
TransferNftV1ChecksNoMplCore ==
    << Check("asset", 1, "Writable", FALSE),
       Check("collection", 2, "Writable", TRUE),
       Check("authority", 3, "Signer", TRUE),
       Check("payer", 5, "Writable", FALSE),
       Check("payer", 5, "Signer", FALSE),
       Check("system_program", 6, "System", TRUE) >>

\* TransferNftV1Checks with the collection check in its mandatory form
TransferNftV1ChecksCollectionMandatory ==
    << Check("asset", 1, "Writable", FALSE),
       Check("collection", 2, "Writable", FALSE),
       Check("authority", 3, "Signer", TRUE),
       Check("payer", 5, "Writable", FALSE),
       Check("payer", 5, "Signer", FALSE),
       Check("system_program", 6, "System", TRUE),
       Check("mpl_core", 8, "MplCore", FALSE) >>

\* transfer_nft_v1.rs, the checks of TransferNftV1Accounts::try_from in source order
TransferNftV1Checks ==
    << Check("asset", 1, "Writable", FALSE),
       Check("collection", 2, "Writable", TRUE),
       Check("authority", 3, "Signer", TRUE),
       Check("payer", 5, "Writable", FALSE),
       Check("payer", 5, "Signer", FALSE),
       Check("system_program", 6, "System", TRUE),
       Check("mpl_core", 8, "MplCore", FALSE) >>

\* one line `X::check(a)?` or `X::check_optional(a.to_optional())?`
RunCheck(c, accs) ==
    IF c.optional
    THEN OptionalAccountCheck(c.kind, ToOptional(accs[c.slot]))
    ELSE AccountCheck(c.kind, accs[c.slot])

\* index of the first check that returns an error, 0 when all pass
FirstFailure(table, accs) ==
    LET bad == {i \in 1..Len(table) : RunCheck(table[i], accs) # "Ok"} IN
    IF bad = {} THEN 0 ELSE CHOOSE i \in bad : \A j \in bad : i <= j

\* the slice pattern with a rest: `let [a, b, ..., ..] = accounts`
SlicePatternWithRest(accs, arity) == Len(accs) >= arity

\* the slice pattern `let [a, b, ...] = accounts else { return Err(..) }`
SlicePatternMatches(accs, arity) == Len(accs) = arity

\* AccountsTryFrom without its last check (the asset protocol identity)
AccountsTryFromSkipLast(accs, arity, table) ==
    IF ~SlicePatternMatches(accs, arity)
    THEN [err |-> "NotEnoughAccountKeys", evaluated |-> <<>>]
    ELSE LET short == SubSeq(table, 1, Len(table) - 1)
             f == FirstFailure(short, accs) IN
         IF f = 0
         THEN [err |-> "Ok", evaluated |-> short]
         ELSE [err |-> RunCheck(short[f], accs), evaluated |-> SubSeq(short, 1, f)]

\* AccountsTryFrom checking the first account before the arity
AccountsTryFromLateArity(accs, arity, table) ==
    IF Len(accs) >= 1 /\ RunCheck(table[1], accs) # "Ok"
    THEN [err |-> RunCheck(table[1], accs), evaluated |-> SubSeq(table, 1, 1)]
    ELSE IF ~SlicePatternMatches(accs, arity)
    THEN [err |-> "NotEnoughAccountKeys", evaluated |-> <<>>]
    ELSE LET f == FirstFailure(table, accs) IN
         IF f = 0
         THEN [err |-> "Ok", evaluated |-> table]
         ELSE [err |-> RunCheck(table[f], accs), evaluated |-> SubSeq(table, 1, f)]

\* the validation part of try_from: the slice pattern, then the checks, each
\* followed by `?`.  err is the value returned ("Ok" when the struct is built),
\* evaluated the checks that ran
AccountsTryFrom(accs, arity, table) ==
    IF ~SlicePatternMatches(accs, arity)
    THEN [err |-> "NotEnoughAccountKeys", evaluated |-> <<>>]
    ELSE LET f == FirstFailure(table, accs) IN
         IF f = 0
         THEN [err |-> "Ok", evaluated |-> table]
         ELSE [err |-> RunCheck(table[f], accs), evaluated |-> SubSeq(table, 1, f)]

CreateNftV1Accounts(accs) ==
    [ asset |-> accs[1],
      collection |-> ToOptional(accs[2]),
      authority |-> ToOptional(accs[3]),
      payer |-> accs[4],
      owner |-> ToOptional(accs[5]),
      update_authority |-> ToOptional(accs[6]),
      system_program |-> accs[7],
      log_wrapper |-> ToOptional(accs[8]),
      mpl_core |-> accs[9] ]

UpdateNftV1Accounts(accs) ==
    [ asset |-> accs[1],
      collection |-> ToOptional(accs[2]),
      authority |-> ToOptional(accs[3]),
      payer |-> accs[4],
      system_program |-> accs[5],
      log_wrapper |-> ToOptional(accs[6]),
      mpl_core |-> accs[7] ]

TransferNftV1Accounts(accs) ==
    [ asset |-> accs[1],
      collection |-> ToOptional(accs[2]),
      authority |-> ToOptional(accs[3]),
      new_owner |-> accs[4],
      payer |-> accs[5],
      system_program |-> ToOptional(accs[6]),
      log_wrapper |-> ToOptional(accs[7]),
      mpl_core |-> accs[8] ]

Arity(tag) ==
    CASE tag = "CreateNftV1" -> CreateArity
      [] tag = "UpdateNftV1" -> UpdateArity
      [] tag = "TransferNftV1" -> TransferArity

Checks(tag) ==
    CASE tag = "CreateNftV1" -> CreateNftV1Checks
      [] tag = "UpdateNftV1" -> UpdateNftV1Checks
      [] tag = "TransferNftV1" -> TransferNftV1Checks

\* XNftV1Accounts::try_from of the operation with this tag
Bind(tag, accs) == AccountsTryFrom(accs, Arity(tag), Checks(tag))

----------------------------------------------------------------------------
(* Invocation: ProcessInstruction::process of each operation *)

\* results the asset protocol may report for a call
CpiResults == {"Ok", "CpiInsufficientFunds", "CpiInvalidAuthority"}

\* CreateV1Cpi with the other data state as the default
CreateV1CpiLedgerDefault(a, d) ==
    [ call |-> "CreateV1",
      program |-> a.mpl_core,
      asset |-> a.asset,
      collection |-> a.collection,
      authority |-> a.authority,
      payer |-> a.payer,
      owner |-> a.owner,
      update_authority |-> a.update_authority,
      system_program |-> a.system_program,
      data_state |-> IF d.data_state = None THEN "LedgerState" ELSE d.data_state[1],
      log_wrapper |-> a.log_wrapper,
      name |-> d.name,
      uri |-> d.uri,
      plugins |-> IF d.plugins = None THEN <<>> ELSE d.plugins[1] ]

\* CreateV1CpiBuilder ... .invoke()
CreateV1Cpi(a, d) ==
    [ call |-> "CreateV1",
      program |-> a.mpl_core,
      asset |-> a.asset,
      collection |-> a.collection,
      authority |-> a.authority,
      payer |-> a.payer,
      owner |-> a.owner,
      update_authority |-> a.update_authority,
      system_program |-> a.system_program,
      data_state |-> IF d.data_state = None THEN "AccountState" ELSE d.data_state[1],
      log_wrapper |-> a.log_wrapper,
      name |-> d.name,
      uri |-> d.uri,
      plugins |-> IF d.plugins = None THEN <<>> ELSE d.plugins[1] ]

\* UpdateV1CpiBuilder ... .invoke(); new_name / new_uri stay unset when None
UpdateV1Cpi(a, d) ==
    [ call |-> "UpdateV1",
      program |-> a.mpl_core,
      asset |-> a.asset,
      collection |-> a.collection,
      authority |-> a.authority,
      payer |-> a.payer,
      system_program |-> a.system_program,
      log_wrapper |-> a.log_wrapper,
      new_name |-> d.new_name,
      new_uri |-> d.new_uri ]

\* TransferV1Cpi with new_owner and payer taken from each other's field
TransferV1CpiSwapped(a) ==
    [ call |-> "TransferV1",
      program |-> a.mpl_core,
      asset |-> a.asset,
      collection |-> a.collection,
      authority |-> a.authority,
      new_owner |-> a.payer,
      payer |-> a.new_owner,
      system_program |-> a.system_program,
      log_wrapper |-> a.log_wrapper ]

\* TransferV1CpiBuilder ... .invoke()
TransferV1Cpi(a) ==
    [ call |-> "TransferV1",
      program |-> a.mpl_core,
      asset |-> a.asset,
      collection |-> a.collection,
      authority |-> a.authority,
      new_owner |-> a.new_owner,
      payer |-> a.payer,
      system_program |-> a.system_program,
      log_wrapper |-> a.log_wrapper ]

----------------------------------------------------------------------------
(* Inputs of one run *)

\* the accounts of the success tests of each operation, in slot order
plain_writable == new_test_account(OtherKey, FALSE, TRUE, SystemId)
plain_signer == new_test_account(OtherKey, TRUE, FALSE, SystemId)
plain_payer == new_test_account(OtherKey, TRUE, TRUE, SystemId)
plain_account == new_test_account(OtherKey, FALSE, FALSE, SystemId)
system_program_account == new_test_account(SystemId, FALSE, FALSE, SystemId)
mpl_core_account == new_test_account(MplCoreId, FALSE, FALSE, MplCoreId)

SuccessAccounts(tag) ==
    CASE tag = "CreateNftV1" ->
           << plain_writable, plain_writable, plain_signer, plain_payer, plain_signer,
              plain_signer, system_program_account, plain_account, mpl_core_account >>
      [] tag = "UpdateNftV1" ->
           << plain_writable, plain_writable, plain_signer, plain_payer,
              system_program_account, plain_account, mpl_core_account >>
      [] tag = "TransferNftV1" ->
           << plain_writable, plain_writable, plain_signer, plain_signer, plain_payer,
              system_program_account, plain_account, mpl_core_account >>

Tags == {"CreateNftV1", "UpdateNftV1", "TransferNftV1"}

\* the success list of an operation cut or padded to n accounts
SizedAccounts(tag, n) ==
    [i \in 1..n |-> IF i <= Arity(tag) THEN SuccessAccounts(tag)[i] ELSE plain_account]

\* account lists of the run: the success list of an operation at every length
\* up to the arity plus MaxExtra with one slot replaced by any account, and at
\* the exact arity with two slots replaced
IsAccountList(tag, accs) ==
    \/ accs = SizedAccounts(tag, 0)
    \/ \E n \in 1..(Arity(tag) + MaxExtra) : \E i \in 1..n : \E a \in AccountInfo :
          accs = [SizedAccounts(tag, n) EXCEPT ![i] = a]
    \/ \E i \in 1..Arity(tag) : \E j \in (i + 1)..Arity(tag) :
          \E a \in AccountInfo, b \in AccountInfo :
             accs = [SizedAccounts(tag, Arity(tag)) EXCEPT ![i] = a, ![j] = b]

\* strings of the payloads
Chars == {97}
Strings == UNION { [1..n -> Chars] : n \in 0..MaxStrLen }
Optional(S) == {None} \cup {Some(x) : x \in S}

PluginVecs == {<<>>} \cup { <<p>> : p \in PluginAuthorityPair }

CreateNftV1InstructionData ==
    [data_state : Optional({"AccountState", "LedgerState"}), name : Strings, uri : Strings,
     plugins : Optional(PluginVecs)]

UpdateNftV1InstructionData == [new_name : Optional(Strings), new_uri : Optional(Strings)]

Instructions ==
    [tag : {"CreateNftV1"}, data : CreateNftV1InstructionData] \cup
    [tag : {"UpdateNftV1"}, data : UpdateNftV1InstructionData] \cup
    [tag : {"TransferNftV1"}, data : {None}]

\* one plain instruction per operation, used with the varied account lists
PlainInstruction(tag) ==
    CASE tag = "CreateNftV1" ->
           [tag |-> tag, data |-> [data_state |-> None, name |-> <<97>>, uri |-> <<97>>,
                                   plugins |-> None]]
      [] tag = "UpdateNftV1" ->
           [tag |-> tag, data |-> [new_name |-> Some(<<97>>), new_uri |-> None]]
      [] tag = "TransferNftV1" -> [tag |-> tag, data |-> None]

\* payloads that are no encoding of an instruction: cut encodings, an encoding
\* followed by one more byte, unknown discriminants and flags
Malformed ==
    { Take(WriteInstructions(PlainInstruction(t)), n) \o x :
        t \in Tags, n \in 0..5, x \in {<<>>, <<0>>, <<1>>, <<2>>, <<3>>, <<200>>} }

Payloads == { WriteInstructions(i) : i \in Instructions } \cup Malformed

TypeOK ==
    /\ pc \in {"entry", "matched", "bound", "done"}
    /\ \A i \in 1..Len(accounts) : accounts[i] \in AccountInfo
    /\ Len(instruction) <= 1 /\ Len(ctx) <= 1

Init ==
    /\ \/ \E t \in Tags :
            /\ instruction_data = WriteInstructions(PlainInstruction(t))
            /\ IsAccountList(t, accounts)
       \/ /\ instruction_data \in Payloads
          /\ \E t \in Tags : \E n \in 0..(Arity(t) + MaxExtra) : accounts = SizedAccounts(t, n)
    /\ pc = "entry"
    /\ instruction = None
    /\ ctx = None
    /\ checks = <<>>
    /\ cpi = <<>>
    /\ reported = <<>>
    /\ result = "Pending"

----------------------------------------------------------------------------
(* process_entrypoint, one action per step *)

\* lib.rs: `let instruction = Instructions::try_from_slice(instruction_data)?;`
Decode ==
    /\ pc = "entry"
    /\ LET i == TryFromSlice(instruction_data) IN
       IF i = None
       THEN /\ result' = "BorshIoError"
            /\ pc' = "done"
            /\ UNCHANGED instruction
       ELSE /\ instruction' = i
            /\ pc' = "matched"
            /\ UNCHANGED result
    /\ UNCHANGED <<accounts, instruction_data, ctx, checks, cpi, reported>>

\* lib.rs: `CreateNftV1::try_from((accounts, data))?`: bind the accounts, return
\* the error or keep the bound struct
CreateNftV1TryFrom ==
    /\ pc = "matched"
    /\ instruction[1].tag = "CreateNftV1"
    /\ LET r == AccountsTryFrom(accounts, CreateArity, CreateNftV1Checks) IN
       /\ checks' = checks \o r.evaluated
       /\ IF r.err = "Ok"
          THEN /\ ctx' = Some(CreateNftV1Accounts(accounts))
               /\ pc' = "bound"
               /\ UNCHANGED result
          ELSE /\ result' = r.err
               /\ pc' = "done"
               /\ UNCHANGED ctx
    /\ UNCHANGED <<accounts, instruction_data, instruction, cpi, reported>>

\* lib.rs: `UpdateNftV1::try_from((accounts, data))?`
UpdateNftV1TryFrom ==
    /\ pc = "matched"
    /\ instruction[1].tag = "UpdateNftV1"
    /\ LET r == AccountsTryFrom(accounts, UpdateArity, UpdateNftV1Checks) IN
       /\ checks' = checks \o r.evaluated
       /\ IF r.err = "Ok"
          THEN /\ ctx' = Some(UpdateNftV1Accounts(accounts))
               /\ pc' = "bound"
               /\ UNCHANGED result
          ELSE /\ result' = r.err
               /\ pc' = "done"
               /\ UNCHANGED ctx
    /\ UNCHANGED <<accounts, instruction_data, instruction, cpi, reported>>

\* lib.rs: `TransferNftV1::try_from(accounts)?`
TransferNftV1TryFrom ==
    /\ pc = "matched"
    /\ instruction[1].tag = "TransferNftV1"
    /\ LET r == AccountsTryFrom(accounts, TransferArity, TransferNftV1Checks) IN
       /\ checks' = checks \o r.evaluated
       /\ IF r.err = "Ok"
          THEN /\ ctx' = Some(TransferNftV1Accounts(accounts))
               /\ pc' = "bound"
               /\ UNCHANGED result
          ELSE /\ result' = r.err
               /\ pc' = "done"
               /\ UNCHANGED ctx
    /\ UNCHANGED <<accounts, instruction_data, instruction, cpi, reported>>

\* CreateNftV1::process: `.invoke()?; Ok(())`: issue the call once and return
\* what the asset protocol reports
CreateNftV1Process ==
    /\ pc = "bound"
    /\ instruction[1].tag = "CreateNftV1"
    /\ cpi' = Append(cpi, CreateV1Cpi(ctx[1], instruction[1].data))
    /\ \E r \in CpiResults : reported' = Append(reported, r) /\ result' = r
    /\ pc' = "done"
    /\ UNCHANGED <<accounts, instruction_data, instruction, ctx, checks>>

\* UpdateNftV1::process issuing the call again after a reported failure
UpdateNftV1ProcessRetry ==
    /\ pc = "bound"
    /\ instruction[1].tag = "UpdateNftV1"
    /\ \E r \in CpiResults :
         /\ reported' = Append(reported, r)
         /\ result' = r
         /\ cpi' = IF r = "Ok"
                   THEN Append(cpi, UpdateV1Cpi(ctx[1], instruction[1].data))
                   ELSE cpi \o << UpdateV1Cpi(ctx[1], instruction[1].data),
                                  UpdateV1Cpi(ctx[1], instruction[1].data) >>
    /\ pc' = "done"
    /\ UNCHANGED <<accounts, instruction_data, instruction, ctx, checks>>

\* UpdateNftV1::process
UpdateNftV1Process ==
    /\ pc = "bound"
    /\ instruction[1].tag = "UpdateNftV1"
    /\ cpi' = Append(cpi, UpdateV1Cpi(ctx[1], instruction[1].data))
    /\ \E r \in CpiResults : reported' = Append(reported, r) /\ result' = r
    /\ pc' = "done"
    /\ UNCHANGED <<accounts, instruction_data, instruction, ctx, checks>>

\* TransferNftV1::process dropping the result of invoke()
TransferNftV1ProcessSwallow ==
    /\ pc = "bound"
    /\ instruction[1].tag = "TransferNftV1"
    /\ cpi' = Append(cpi, TransferV1Cpi(ctx[1]))
    /\ \E r \in CpiResults : reported' = Append(reported, r) /\ result' = "Ok"
    /\ pc' = "done"
    /\ UNCHANGED <<accounts, instruction_data, instruction, ctx, checks>>

\* TransferNftV1::process
TransferNftV1Process ==
    /\ pc = "bound"
    /\ instruction[1].tag = "TransferNftV1"
    /\ cpi' = Append(cpi, TransferV1Cpi(ctx[1]))
    /\ \E r \in CpiResults : reported' = Append(reported, r) /\ result' = r
    /\ pc' = "done"
    /\ UNCHANGED <<accounts, instruction_data, instruction, ctx, checks>>

Next ==
    \/ Decode
    \/ CreateNftV1TryFrom
    \/ UpdateNftV1TryFrom
    \/ TransferNftV1TryFrom
    \/ CreateNftV1Process
    \/ UpdateNftV1Process
    \/ TransferNftV1Process

Spec == Init /\ [][Next]_vars

----------------------------------------------------------------------------
(* Properties *)

Decoded == instruction # None
Tag == instruction[1].tag

\* the run is past the binding of the decoded operation
BindOk == Decoded /\ (pc = "bound" \/ cpi # <<>>)
BindFailed == Decoded /\ pc = "done" /\ cpi = <<>>

Failure == result \notin {"Ok", "Pending"}

\* every check of the operation's binding passes on the account list
AllChecksPass(tag, accs) ==
    \A i \in 1..Len(Checks(tag)) : RunCheck(Checks(tag)[i], accs) = "Ok"

\* the payload decodes and the accounts have the arity and the capabilities of
\* the decoded operation
InputValid ==
    /\ TryFromSlice(instruction_data) # None
    /\ LET tag == TryFromSlice(instruction_data)[1].tag IN
       /\ Len(accounts) = Arity(tag)
       /\ AllChecksPass(tag, accounts)

\* C1: the outbound call is issued only when decoding succeeded and the
\* accounts bound with every capability check passing; a run whose payload
\* does not decode or whose accounts do not bind ends in failure with no
\* outbound call
C1_CallOnlyAfterValidation ==
    /\ cpi # <<>> => InputValid
    /\ pc = "bound" => InputValid
    /\ (pc = "done" /\ ~InputValid) => (Failure /\ cpi = <<>>)

C1_Witness ==
    /\ pc = "done"
    /\ Decoded
    /\ Len(accounts) = Arity(Tag)
    /\ ~AllChecksPass(Tag, accounts)
    /\ Failure
    /\ cpi = <<>>

CallOf(tag) ==
    CASE tag = "CreateNftV1" -> "CreateV1"
      [] tag = "UpdateNftV1" -> "UpdateV1"
      [] tag = "TransferNftV1" -> "TransferV1"

\* C2: in one run the outbound call is issued at most once, also after the
\* asset protocol reported a failure, and it is the call of the decoded
\* operation tag
C2_AtMostOneCall ==
    /\ Len(cpi) <= 1
    /\ Len(reported) = Len(cpi)
    /\ cpi # <<>> => (Decoded /\ cpi[1].call = CallOf(Tag))

C2_Witness ==
    /\ pc = "done"
    /\ Len(cpi) = 1
    /\ reported[1] # "Ok"
    /\ Tag = "UpdateNftV1"

\* C3: an account list shorter than the arity of the decoded operation fails
\* with NotEnoughAccountKeys whatever the accounts are, and no capability
\* check is evaluated
C3_ShortListNotEnoughAccounts ==
    (Decoded /\ pc # "matched" /\ Len(accounts) < Arity(Tag)) =>
        /\ pc = "done"
        /\ result = "NotEnoughAccountKeys"
        /\ checks = <<>>
        /\ cpi = <<>>

C3_Witness ==
    /\ Decoded
    /\ pc = "done"
    /\ Len(accounts) > 0
    /\ Len(accounts) < Arity(Tag)
    /\ ~accounts[1].is_writable
    /\ result = "NotEnoughAccountKeys"

\* the run is past the binding and the account list has the arity
BoundAtArity == Decoded /\ pc \in {"bound", "done"} /\ Len(accounts) = Arity(Tag)

\* the role tables of the design (role, slot, capability, optional presence)
RoleTable(tag) ==
    CASE tag = "CreateNftV1" ->
           << Check("asset", 1, "Writable", FALSE),
              Check("collection", 2, "Writable", TRUE),
              Check("authority", 3, "Signer", TRUE),
              Check("payer", 4, "Writable", FALSE),
              Check("payer", 4, "Signer", FALSE),
              Check("owner", 5, "Signer", TRUE),
              Check("update_authority", 6, "Signer", TRUE),
              Check("system_program", 7, "System", FALSE),
              Check("mpl_core", 9, "MplCore", FALSE) >>
      [] tag = "UpdateNftV1" ->
           << Check("asset", 1, "Writable", FALSE),
              Check("collection", 2, "Writable", FALSE),
              Check("authority", 3, "Signer", TRUE),
              Check("payer", 4, "Writable", FALSE),
              Check("payer", 4, "Signer", FALSE),
              Check("system_program", 5, "System", FALSE),
              Check("mpl_core", 7, "MplCore", FALSE) >>
      [] tag = "TransferNftV1" ->
           << Check("asset", 1, "Writable", FALSE),
              Check("collection", 2, "Writable", TRUE),
              Check("authority", 3, "Signer", TRUE),
              Check("payer", 5, "Writable", FALSE),
              Check("payer", 5, "Signer", FALSE),
              Check("system_program", 6, "System", TRUE),
              Check("mpl_core", 8, "MplCore", FALSE) >>

\* the account list meets requirement c of a role table
Satisfies(c, accs) ==
    \/ c.optional /\ accs[c.slot].key = AbsentKey
    \/ AccountCheck(c.kind, accs[c.slot]) = "Ok"

Violated(table, accs) == {i \in 1..Len(table) : ~Satisfies(table[i], accs)}

LastCheck == checks[Len(checks)]

\* C4: with the right arity, an account list meeting every requirement of the
\* role table binds, and one violating exactly one mandatory requirement
\* fails at the check of that role with that check's error
C4_FlipFailsNoFalseFailure ==
    BoundAtArity =>
        LET table == RoleTable(Tag)
            bad == Violated(table, accounts) IN
        /\ bad = {} => BindOk
        /\ \A i \in 1..Len(table) :
              (bad = {i} /\ ~table[i].optional) =>
                  /\ BindFailed
                  /\ result = AccountCheck(table[i].kind, accounts[table[i].slot])
                  /\ checks # <<>>
                  /\ LastCheck.role = table[i].role
                  /\ LastCheck.kind = table[i].kind

\* the slots of the roles marked optional in the role tables
OptionalSlots(tag) ==
    CASE tag = "CreateNftV1" -> {2, 3, 5, 6, 8}
      [] tag = "UpdateNftV1" -> {3, 6}
      [] tag = "TransferNftV1" -> {2, 3, 6, 7}

\* C5: an optional role whose slot holds the absent marker is never checked:
\* binding does not fail at that slot and its result does not depend on the
\* flags and owner of that slot
C5_AbsentOptionalNeverChecked ==
    BoundAtArity =>
        \A s \in OptionalSlots(Tag) :
            accounts[s].key = AbsentKey =>
                /\ ~(BindFailed /\ checks # <<>> /\ LastCheck.slot = s)
                /\ \A a \in AccountInfo :
                      a.key = AbsentKey =>
                          Bind(Tag, [accounts EXCEPT ![s] = a]).err = Bind(Tag, accounts).err

\* every check of the binding other than those of slot s passes
OthersPass(tag, accs, s) ==
    \A i \in 1..Len(Checks(tag)) :
        Checks(tag)[i].slot # s => RunCheck(Checks(tag)[i], accs) = "Ok"

\* C6: an account in the asset protocol role (the last slot) whose key is not
\* the asset protocol program id makes binding fail, and no call is issued
C6_WrongAssetProtocolFails ==
    (BoundAtArity /\ accounts[Arity(Tag)].key # MplCoreId) =>
        /\ BindFailed
        /\ Failure
        /\ result # "NotEnoughAccountKeys"

C6_Witness ==
    /\ BoundAtArity
    /\ Tag = "TransferNftV1"
    /\ accounts[Arity(Tag)].key # MplCoreId
    /\ OthersPass(Tag, accounts, Arity(Tag))
    /\ result = "InvalidAssetProtocol"
    /\ cpi = <<>>

SystemSlot(tag) ==
    CASE tag = "CreateNftV1" -> 7
      [] tag = "UpdateNftV1" -> 5
      [] tag = "TransferNftV1" -> 6

\* C7: when every other role is valid and the account in the system program
\* slot is not the runtime program, binding fails, at the owning-runtime role
C7_WrongSystemProgramFails ==
    ( /\ BoundAtArity
      /\ OthersPass(Tag, accounts, SystemSlot(Tag))
      /\ accounts[SystemSlot(Tag)].key # SystemId
      /\ (Tag = "TransferNftV1" => accounts[SystemSlot(Tag)].key # AbsentKey) ) =>
        /\ BindFailed
        /\ checks # <<>>
        /\ LastCheck.role = "system_program"

\* scenario A of the design: the account list of the Create happy path
ScenarioA ==
    /\ Len(accounts) = CreateArity
    /\ accounts[1].is_writable /\ ~accounts[1].is_signer
    /\ accounts[2].key # AbsentKey /\ accounts[2].is_writable
    /\ accounts[3].key = AbsentKey
    /\ accounts[4].is_writable /\ accounts[4].is_signer
    /\ accounts[5].key # AbsentKey /\ accounts[5].is_signer
    /\ accounts[6].key # AbsentKey /\ accounts[6].is_signer
    /\ accounts[7].key = SystemId /\ accounts[7].owner = SystemId
    /\ accounts[8].key = AbsentKey
    /\ accounts[9].key = MplCoreId

\* C8: on the Create happy path binding succeeds and exactly one create call
\* is issued; every create call carries the payload's name and uri, its
\* data_state or AccountState when absent, its plugins or the empty list when
\* absent
C8_CreateHappyPath ==
    /\ (Decoded /\ Tag = "CreateNftV1" /\ pc \in {"bound", "done"} /\ ScenarioA) =>
          /\ BindOk
          /\ pc = "done" =>
                /\ Len(cpi) = 1
                /\ cpi[1].call = "CreateV1"
                /\ cpi[1].authority = None
                /\ cpi[1].log_wrapper = None
    /\ \A i \in 1..Len(cpi) :
          cpi[i].call = "CreateV1" =>
              LET d == TryFromSlice(instruction_data)[1].data IN
              /\ cpi[i].name = d.name
              /\ cpi[i].uri = d.uri
              /\ d.data_state = None => cpi[i].data_state = "AccountState"
              /\ d.data_state # None => cpi[i].data_state = d.data_state[1]
              /\ d.plugins = None => cpi[i].plugins = <<>>
              /\ d.plugins # None => cpi[i].plugins = d.plugins[1]

C8_Witness ==
    /\ Decoded
    /\ Tag = "CreateNftV1"
    /\ ScenarioA
    /\ pc = "done"
    /\ Len(cpi) = 1
    /\ instruction[1].data.data_state = None
    /\ instruction[1].data.plugins = None
    /\ cpi[1].data_state = "AccountState"
    /\ cpi[1].plugins = <<>>

\* the role-declaration order of the capability checks
DeclarationOrder ==
    << <<"asset", "Writable">>, <<"collection", "Writable">>, <<"authority", "Signer">>,
       <<"payer", "Writable">>, <<"payer", "Signer">>, <<"owner", "Signer">>,
       <<"update_authority", "Signer">>, <<"system_program", "System">>,
       <<"mpl_core", "MplCore">> >>

Rank(c) == IndexOf(DeclarationOrder, <<c.role, c.kind>>)

\* C9: the checks of a binding are evaluated in role-declaration order and
\* stop at the first failure: the error returned is that of the first
\* violated check in that order, and no later check is evaluated
C9_FailFastInOrder ==
    BoundAtArity =>
        /\ \A i \in 1..Len(checks) : \A j \in 1..Len(checks) :
              i < j => Rank(checks[i]) < Rank(checks[j])
        /\ \A i \in 1..(Len(checks) - 1) : RunCheck(checks[i], accounts) = "Ok"
        /\ BindFailed =>
              /\ checks # <<>>
              /\ result = RunCheck(LastCheck, accounts)
              /\ result # "Ok"
              /\ \A k \in 1..Len(Checks(Tag)) :
                    Rank(Checks(Tag)[k]) < Rank(LastCheck) =>
                        RunCheck(Checks(Tag)[k], accounts) = "Ok"
        /\ BindOk => Len(checks) = Len(Checks(Tag))

C9_Witness ==
    /\ BoundAtArity
    /\ BindFailed
    /\ Tag = "CreateNftV1"
    /\ result = "NotSigner"
    /\ \E k \in 1..Len(Checks(Tag)) :
          /\ Rank(Checks(Tag)[k]) > Rank(LastCheck)
          /\ RunCheck(Checks(Tag)[k], accounts) \notin {"Ok", "NotSigner"}

\* C10: when decoding and binding succeed the call is issued and the result
\* of the instruction is what the asset protocol reported for that one call,
\* failure or success, unchanged
C10_CallResultPropagated ==
    /\ (pc = "done" /\ InputValid) => (Len(cpi) = 1 /\ Len(reported) = 1)
    /\ (pc = "done" /\ cpi # <<>>) => result = reported[1]
    /\ pc = "bound" => result = "Pending"

C10_Witness ==
    /\ pc = "done"
    /\ Decoded
    /\ Tag = "TransferNftV1"
    /\ Len(reported) = 1
    /\ reported[1] = "CpiInsufficientFunds"
    /\ result = "CpiInsufficientFunds"

----------------------------------------------------------------------------
(* Codec runs: instructions built offline, serialized and handed to the
   entrypoint with the account list of a success test *)

\* names and uris of one to four byte characters: "", "a", U+00E9, U+20AC, U+1F48E
CodecStrings ==
    { <<>>, <<97>>, <<195, 169>>, <<226, 130, 172>>, <<240, 159, 146, 142>> }

CodecInstructions ==
    [tag : {"CreateNftV1"},
     data : [data_state : Optional({"AccountState", "LedgerState"}), name : CodecStrings,
             uri : CodecStrings, plugins : Optional(PluginVecs)]] \cup
    [tag : {"UpdateNftV1"},
     data : [new_name : Optional(CodecStrings), new_uri : Optional(CodecStrings)]] \cup
    [tag : {"TransferNftV1"}, data : {None}]

CodecPayloads == { WriteInstructions(i) : i \in CodecInstructions } \cup Malformed

CodecInit ==
    /\ instruction_data \in CodecPayloads
    /\ \E t \in Tags : accounts = SuccessAccounts(t)
    /\ pc = "entry"
    /\ instruction = None
    /\ ctx = None
    /\ checks = <<>>
    /\ cpi = <<>>
    /\ reported = <<>>
    /\ result = "Pending"

SpecCodec == CodecInit /\ [][Next]_vars

\* the leading discriminants in the declared order of the variants
Discriminant(tag) ==
    CASE tag = "CreateNftV1" -> 0
      [] tag = "UpdateNftV1" -> 1
      [] tag = "TransferNftV1" -> 2

\* C11: decoding the encoding of an instruction gives that instruction back,
\* and the encodings of Create, Update and Transfer start with the distinct
\* discriminants 0, 1 and 2
C11_RoundTrip ==
    \A op \in CodecInstructions :
        instruction_data = WriteInstructions(op) =>
            /\ instruction_data[1] = Discriminant(op.tag)
            /\ pc # "entry" =>
                  /\ Decoded
                  /\ Tag = op.tag
                  /\ instruction[1].data = op.data

C11_Witness ==
    /\ pc = "matched"
    /\ Tag = "CreateNftV1"
    /\ instruction[1].data.data_state = Some("LedgerState")
    /\ instruction[1].data.name = <<226, 130, 172>>
    /\ instruction[1].data.uri = <<97>>
    /\ instruction[1].data.plugins # None
    /\ instruction[1].data.plugins[1] # <<>>
    /\ instruction[1].data.plugins[1][1].authority # None
    /\ instruction_data = WriteInstructions(instruction[1])

\* the optional roles that carry a check: slot and capability
OptionalChecks(tag) ==
    CASE tag = "CreateNftV1" ->
           { [slot |-> 3, kind |-> "Signer"], [slot |-> 5, kind |-> "Signer"],
             [slot |-> 6, kind |-> "Signer"] }
      [] tag = "UpdateNftV1" -> { [slot |-> 3, kind |-> "Signer"] }
      [] tag = "TransferNftV1" ->
           { [slot |-> 2, kind |-> "Writable"], [slot |-> 3, kind |-> "Signer"],
             [slot |-> 6, kind |-> "System"] }

\* the account lacks the capability
Lacks(kind, account) ==
    CASE kind = "Writable" -> ~account.is_writable
      [] kind = "Signer" -> ~account.is_signer
      [] kind = "System" -> account.owner # SystemId

ErrorOf(kind) ==
    CASE kind = "Writable" -> "NotWritable"
      [] kind = "Signer" -> "NotSigner"
      [] kind = "System" -> "InvalidProgramOwner"

\* C12: the optional form of a check is the mandatory check on a present
\* account and passes on an absent one: a present account lacking the
\* capability makes binding fail, with that check's error when every other
\* check passes; a present account having it, or an absent one, does not
\* make binding fail
C12_OptionalCheckOnPresent ==
    BoundAtArity =>
        \A c \in OptionalChecks(Tag) :
            LET a == accounts[c.slot]
                failedHere == BindFailed /\ checks # <<>> /\ LastCheck.slot = c.slot IN
            /\ (a.key # AbsentKey /\ Lacks(c.kind, a)) =>
                  /\ BindFailed
                  /\ OthersPass(Tag, accounts, c.slot) =>
                        (failedHere /\ LastCheck.kind = c.kind /\ result = ErrorOf(c.kind))
            /\ (a.key = AbsentKey \/ ~Lacks(c.kind, a)) =>
                  /\ ~failedHere
                  /\ OthersPass(Tag, accounts, c.slot) => BindOk

C12_Witness ==
    /\ BoundAtArity
    /\ Tag = "TransferNftV1"
    /\ accounts[6].key # AbsentKey
    /\ accounts[6].owner # SystemId
    /\ OthersPass(Tag, accounts, 6)
    /\ BindFailed
    /\ result = "InvalidProgramOwner"

\* C13: an account list longer than the arity of the decoded operation is
\* rejected with NotEnoughAccountKeys before any check, also when its first
\* arity-many accounts pass every check; only the exact arity binds
C13_ExactArity ==
    /\ (Decoded /\ pc # "matched" /\ Len(accounts) > Arity(Tag)) =>
          /\ pc = "done"
          /\ result = "NotEnoughAccountKeys"
          /\ checks = <<>>
          /\ cpi = <<>>
    /\ BindOk => Len(accounts) = Arity(Tag)

C13_Witness ==
    /\ Decoded
    /\ pc = "done"
    /\ Len(accounts) > Arity(Tag)
    /\ AllChecksPass(Tag, accounts)
    /\ result = "NotEnoughAccountKeys"
    /\ cpi = <<>>

\* the fixed index of every role in the incoming list (1-based)
SlotOf(tag) ==
    CASE tag = "CreateNftV1" ->
           [asset |-> 1, collection |-> 2, authority |-> 3, payer |-> 4, owner |-> 5,
            update_authority |-> 6, system_program |-> 7, log_wrapper |-> 8, mpl_core |-> 9]
      [] tag = "UpdateNftV1" ->
           [asset |-> 1, collection |-> 2, authority |-> 3, payer |-> 4,
            system_program |-> 5, log_wrapper |-> 6, mpl_core |-> 7]
      [] tag = "TransferNftV1" ->
           [asset |-> 1, collection |-> 2, authority |-> 3, new_owner |-> 4, payer |-> 5,
            system_program |-> 6, log_wrapper |-> 7, mpl_core |-> 8]

\* the roles handed on as present-or-absent
OptionalRoles(tag) ==
    CASE tag = "CreateNftV1" ->
           {"collection", "authority", "owner", "update_authority", "log_wrapper"}
      [] tag = "UpdateNftV1" -> {"collection", "authority", "log_wrapper"}
      [] tag = "TransferNftV1" -> {"collection", "authority", "system_program", "log_wrapper"}

\* what a role carries when it holds the account at its own index
Carried(tag, role) ==
    LET a == accounts[SlotOf(tag)[role]] IN
    IF role \in OptionalRoles(tag)
    THEN IF a.key = AbsentKey THEN <<>> ELSE <<a>>
    ELSE a

PositionsPreserved ==
    /\ (Decoded /\ ctx # None) =>
          \A role \in DOMAIN SlotOf(Tag) : ctx[1][role] = Carried(Tag, role)
    /\ \A i \in 1..Len(cpi) :
          /\ cpi[i].program = accounts[SlotOf(Tag).mpl_core]
          /\ \A role \in DOMAIN SlotOf(Tag) \ {"mpl_core"} :
                cpi[i][role] = Carried(Tag, role)

\* C14: after a successful binding every role of the bound struct and of the
\* outbound call carries the account at that role's fixed index of the
\* incoming list, an optional slot holding the absent marker is handed on as
\* absent, and no step changes the account list
C14_PositionsPreserved ==
    /\ []PositionsPreserved
    /\ [][accounts' = accounts]_vars

C14_Witness ==
    /\ pc = "done"
    /\ Decoded
    /\ Tag = "TransferNftV1"
    /\ Len(cpi) = 1
    /\ accounts[4] # accounts[5]
    /\ accounts[1] # accounts[2]
    /\ accounts[6].key = AbsentKey
    /\ cpi[1].new_owner = accounts[4]
    /\ cpi[1].payer = accounts[5]
    /\ cpi[1].system_program = None

====
